---- MODULE Spec2Model ----
(***************************************************************************)
(* A model of rs-brainfuck (src/src/main.rs): the growable tape            *)
(* (GrowableVect), the execution state (BfState), the bracket matcher      *)
(* (build_pc_pairs, match_left_pc, match_right_pc) and the dispatch loop   *)
(* of run, one action per dispatched symbol.                               *)
(*                                                                         *)
(* A program text is a sequence of chars.  A char is written as a string;  *)
(* "x" stands for any one-byte char that is no instruction and "U+00E9"    *)
(* for a char whose UTF-8 encoding takes two bytes.  Offsets, indices and  *)
(* the program counter are 0-based as in the source; sequences are 1-based *)
(* so element k of the source is element k + 1 here.                       *)
(***************************************************************************)
EXTENDS Integers, Sequences, FiniteSets, TLC

VARIABLES
    program,          \* run's argument: the program text
    memory,           \* BfState.memory: GrowableVect {arr, default_value}
    pointer,          \* BfState.pointer
    pc,               \* run's local pc
    pc_pairs,         \* run's local pc_pairs
    result,           \* run's local result / return value
    phase,            \* where run is: "call", "loop", "returned", "panicked"
    stdin,            \* the bytes not yet read from standard input
    stdout,           \* standard output: [buf: written, not flushed; flushed: visible]
    overflow_checks,  \* the build: TRUE (debug) panics on integer overflow, FALSE wraps
    start,            \* ghost: memory, pointer, stdin and stdout at the call of run
    last,             \* ghost: offset of the last symbol dispatched, -1 if none
    prev,             \* ghost: outcome of the previous run of the harness, or NoRun
    parts,            \* ghost: the texts a caller runs one after another, or NoParts
    op,               \* ghost: the last direct tape access [kind, index, value]
    written           \* ghost: the tape indices written by direct accesses

vars == <<program, memory, pointer, pc, pc_pairs, result, phase, stdin, stdout,
          overflow_checks, start, last, prev, parts, op, written>>

----------------------------------------------------------------------------
(* Bounds *)

MaxLen == 3        \* longest program text, in chars
MaxPointer == 4    \* '>' is not taken beyond this pointer
MaxOut == 6        \* '.' is not taken once this many bytes are visible

----------------------------------------------------------------------------
(* Chars and bytes *)

Instructions == {"+", "-", ">", "<", ",", ".", "[", "]"}

Alphabet == Instructions \cup {"x", "U+00E9"}

\* char::len_utf8, as char_indices advances by it
len_utf8(sym) == IF sym = "U+00E9" THEN 2 ELSE 1

\* u8 arithmetic
U8Mod == 256

overflowing_add(a, b) == (a + b) % U8Mod

overflowing_sub(a, b) == (a - b + U8Mod) % U8Mod

\* str::char_indices: the byte offset of the char at (0-based) char position k,
\* the sum of the UTF-8 lengths (1 to 4 bytes) of the k chars before it
byte_offset(text, k) ==
    LET n(w) == Cardinality({i \in 1..k : len_utf8(text[i]) = w})
    IN  n(1) + 2 * n(2) + 3 * n(3) + 4 * n(4)

char_indices(text) ==
    [k \in 1..Len(text) |-> [index |-> byte_offset(text, k - 1), sym |-> text[k]]]

\* str::chars().collect(): the chars, indexed by char position
chars(text) == text

----------------------------------------------------------------------------
(* GrowableVect *)

default_value == 0

GrowableVect_new == [arr |-> <<>>, default_value |-> default_value]

\* Index::index
index(vect, i) ==
    IF i >= Len(vect.arr) THEN vect.default_value ELSE vect.arr[i + 1]

\* Vec::resize(new_len, value): truncate, or extend with value
resize(arr, new_len, value) ==
    IF new_len <= Len(arr)
    THEN SubSeq(arr, 1, new_len)
    ELSE arr \o [k \in 1..(new_len - Len(arr)) |-> value]

\* a variant of index_mut that resizes whether or not the index is in range
index_mut_always_resize(vect, i) ==
    [vect EXCEPT !.arr = resize(vect.arr, i + 1, vect.default_value)]

\* IndexMut::index_mut: the vector after the resize; the reference is to arr[i]
index_mut(vect, i) ==
    IF i >= Len(vect.arr)
    THEN [vect EXCEPT !.arr = resize(vect.arr, i + 1, vect.default_value)]
    ELSE vect

\* a variant of assign whose out-of-range case hands out default_value, as index does
assign_to_default(vect, i, value) ==
    IF i >= Len(vect.arr)
    THEN [vect EXCEPT !.default_value = value]
    ELSE [vect EXCEPT !.arr[i + 1] = value]

\* vect[i] = value
assign(vect, i, value) ==
    LET grown == index_mut(vect, i)
    IN  [grown EXCEPT !.arr[i + 1] = value]

----------------------------------------------------------------------------
(* BfState *)

curr(mem, ptr) == index(mem, ptr)

set_curr(mem, ptr, value) == assign(mem, ptr, value)

\* a variant of inc that saturates at 255 instead of wrapping
inc_saturating(mem, ptr) ==
    set_curr(mem, ptr, IF curr(mem, ptr) = 255 THEN 255 ELSE curr(mem, ptr) + 1)

inc(mem, ptr) == set_curr(mem, ptr, overflowing_add(curr(mem, ptr), 1))

\* a variant of dec that saturates at 0 instead of wrapping
dec_saturating(mem, ptr) ==
    set_curr(mem, ptr, IF curr(mem, ptr) = 0 THEN 0 ELSE curr(mem, ptr) - 1)

dec(mem, ptr) == set_curr(mem, ptr, overflowing_sub(curr(mem, ptr), 1))

\* a variant of left that stays at 0 and reports success
left_saturating(ptr) ==
    [res |-> "Ok", pointer |-> IF ptr = 0 THEN 0 ELSE ptr - 1]

left(ptr) ==
    IF ptr = 0
    THEN [res |-> "Segfault", pointer |-> ptr]
    ELSE [res |-> "Ok", pointer |-> ptr - 1]

right(ptr) == ptr + 1

----------------------------------------------------------------------------
(* Standard streams *)

\* Display for char: the UTF-8 encoding of the code point cp < 0x800
encode_utf8(cp) ==
    IF cp < 128 THEN <<cp>> ELSE <<192 + (cp \div 64), 128 + (cp % 64)>>

\* print!("{}", c as char): c as char is the code point c
print(out, c) == [out EXCEPT !.buf = out.buf \o encode_utf8(c)]

\* io::stdout().flush()
flush(out) == [buf |-> <<>>, flushed |-> out.flushed \o out.buf]

write(out, c) == flush(print(out, c))

----------------------------------------------------------------------------
(* Bracket matching *)

Front(s) == SubSeq(s, 1, Len(s) - 1)

\* a variant of on_close that lets a ']' with no pending '[' pass
on_close_unchecked(pc_stack, pairs, idx) ==
    IF pc_stack = <<>>
    THEN [res |-> "Ok", pc_stack |-> pc_stack, pairs |-> pairs]
    ELSE [res |-> "Ok", pc_stack |-> Front(pc_stack),
          pairs |-> Append(pairs, <<pc_stack[Len(pc_stack)], idx>>)]

\* a variant of on_close that pairs a ']' with the oldest pending '['
on_close_fifo(pc_stack, pairs, idx) ==
    IF pc_stack = <<>>
    THEN [res |-> "MismatchedBraces", pc_stack |-> pc_stack, pairs |-> pairs]
    ELSE [res |-> "Ok", pc_stack |-> Tail(pc_stack),
          pairs |-> Append(pairs, <<pc_stack[1], idx>>)]

\* the body of `if sym == ']'`: pop, then push the pair or fail
on_close(pc_stack, pairs, idx) ==
    IF pc_stack = <<>>
    THEN [res |-> "MismatchedBraces", pc_stack |-> pc_stack, pairs |-> pairs]
    ELSE [res |-> "Ok", pc_stack |-> Front(pc_stack),
          pairs |-> Append(pairs, <<pc_stack[Len(pc_stack)], idx>>)]

\* a variant of on_end that forgets the pending opens
on_end_unchecked(pc_stack, pairs) == [res |-> "Ok", pairs |-> pairs]

\* after the scan: unclosed opens remain
on_end(pc_stack, pairs) ==
    IF pc_stack # <<>>
    THEN [res |-> "MismatchedBraces", pairs |-> pairs]
    ELSE [res |-> "Ok", pairs |-> pairs]

RECURSIVE scan(_, _, _, _)
scan(cs, k, pc_stack, pairs) ==
    IF k > Len(cs)
    THEN on_end(pc_stack, pairs)
    ELSE LET pushed == IF cs[k].sym = "[" THEN Append(pc_stack, cs[k].index)
                       ELSE pc_stack
         IN  IF cs[k].sym = "]"
             THEN LET r == on_close(pushed, pairs, cs[k].index)
                  IN  IF r.res # "Ok"
                      THEN [res |-> r.res, pairs |-> r.pairs]
                      ELSE scan(cs, k + 1, r.pc_stack, r.pairs)
             ELSE scan(cs, k + 1, pushed, pairs)

IsBracket(c) == c.sym \in {"[", "]"}

\* the for loop does nothing on a char that is neither '[' nor ']': the scan
\* goes over the brackets of the text, in order, with their byte offsets
build_pc_pairs(text) == scan(SelectSeq(char_indices(text), IsBracket), 1, <<>>, <<>>)

None == -1

\* the first pair whose open offset is left_pc
match_left_pc(pairs, left_pc) ==
    LET hits == {k \in 1..Len(pairs) : pairs[k][1] = left_pc}
    IN  IF hits = {} THEN None
        ELSE pairs[CHOOSE k \in hits : \A j \in hits : k <= j][2]

\* the first pair whose close offset is right_pc
match_right_pc(pairs, right_pc) ==
    LET hits == {k \in 1..Len(pairs) : pairs[k][2] = right_pc}
    IN  IF hits = {} THEN None
        ELSE pairs[CHOOSE k \in hits : \A j \in hits : k <= j][1]

----------------------------------------------------------------------------
(* run *)

NoRun == [phase |-> "none"]

NoParts == [texts |-> <<>>, at |-> 0]

NoOp == [kind |-> "none", index |-> 0, value |-> 0, len |-> 0]

symbols == chars(program)

Dispatching(sym) ==
    /\ phase = "loop"
    /\ pc < Len(symbols)
    /\ symbols[pc + 1] = sym

\* a variant of Step without the loop's pc = pc + 1
Step_no_advance(res, new_pc) ==
    /\ result' = res
    /\ last' = pc
    /\ IF res # "Ok"
       THEN phase' = "returned" /\ pc' = new_pc
       ELSE phase' = "loop" /\ pc' = new_pc

\* the end of the loop body: return an error, or pc = pc + 1
Step(res, new_pc) ==
    /\ result' = res
    /\ last' = pc
    /\ IF res # "Ok"
       THEN phase' = "returned" /\ pc' = new_pc
       ELSE phase' = "loop" /\ pc' = new_pc + 1

Panic ==
    /\ phase' = "panicked"
    /\ last' = pc
    /\ UNCHANGED <<pc, result>>

Fixed == <<start, prev, parts, op, written, overflow_checks, program>>

\* run's prologue: build the pairing table, return its error
Run ==
    /\ phase = "call"
    /\ LET r == build_pc_pairs(program)
       IN  /\ result' = r.res
           /\ pc_pairs' = IF r.res = "Ok" THEN r.pairs ELSE <<>>
           /\ phase' = IF r.res = "Ok" THEN "loop" ELSE "returned"
    /\ pc' = 0
    /\ UNCHANGED <<memory, pointer, stdin, stdout, last, Fixed>>

Inc ==
    /\ Dispatching("+")
    /\ memory' = inc(memory, pointer)
    /\ Step("Ok", pc)
    /\ UNCHANGED <<pointer, pc_pairs, stdin, stdout, Fixed>>

Dec ==
    /\ Dispatching("-")
    /\ memory' = dec(memory, pointer)
    /\ Step("Ok", pc)
    /\ UNCHANGED <<pointer, pc_pairs, stdin, stdout, Fixed>>

Right ==
    /\ Dispatching(">")
    /\ pointer < MaxPointer
    /\ pointer' = right(pointer)
    /\ Step("Ok", pc)
    /\ UNCHANGED <<memory, pc_pairs, stdin, stdout, Fixed>>

Left ==
    /\ Dispatching("<")
    /\ LET r == left(pointer)
       IN  /\ pointer' = r.pointer
           /\ Step(r.res, pc)
    /\ UNCHANGED <<memory, pc_pairs, stdin, stdout, Fixed>>

\* a variant of Comma that stores 0 at the end of stdin and goes on
Comma_zero_at_eof ==
    /\ Dispatching(",")
    /\ IF stdin = <<>>
       THEN /\ memory' = set_curr(memory, pointer, 0)
            /\ stdin' = stdin
            /\ Step("Ok", pc)
       ELSE /\ memory' = set_curr(memory, pointer, Head(stdin))
            /\ stdin' = Tail(stdin)
            /\ Step("Ok", pc)
    /\ UNCHANGED <<pointer, pc_pairs, stdout, Fixed>>

\* read() panics at the end of stdin, before set_curr is called
Comma ==
    /\ Dispatching(",")
    /\ IF stdin = <<>>
       THEN Panic /\ UNCHANGED <<memory, stdin>>
       ELSE /\ memory' = set_curr(memory, pointer, Head(stdin))
            /\ stdin' = Tail(stdin)
            /\ Step("Ok", pc)
    /\ UNCHANGED <<pointer, pc_pairs, stdout, Fixed>>

Dot ==
    /\ Dispatching(".")
    /\ Len(stdout.flushed) < MaxOut
    /\ stdout' = write(stdout, curr(memory, pointer))
    /\ Step("Ok", pc)
    /\ UNCHANGED <<memory, pointer, pc_pairs, stdin, Fixed>>

\* a variant of Open that lands on the paired ']' instead of after it
Open_to_close ==
    /\ Dispatching("[")
    /\ IF curr(memory, pointer) = 0
       THEN LET m == match_left_pc(pc_pairs, pc)
            IN  IF m = None THEN Panic ELSE Step("Ok", m - 1)
       ELSE Step("Ok", pc)
    /\ UNCHANGED <<memory, pointer, pc_pairs, stdin, stdout, Fixed>>


Open ==
    /\ Dispatching("[")
    /\ IF curr(memory, pointer) = 0
       THEN LET m == match_left_pc(pc_pairs, pc)
            IN  IF m = None THEN Panic ELSE Step("Ok", m)
       ELSE Step("Ok", pc)
    /\ UNCHANGED <<memory, pointer, pc_pairs, stdin, stdout, Fixed>>

\* a variant of Close that lands after the paired '[' instead of on it
Close_to_after_open ==
    /\ Dispatching("]")
    /\ LET m == match_right_pc(pc_pairs, pc)
       IN  IF m = None
           THEN Panic
           ELSE Step("Ok", m)
    /\ UNCHANGED <<memory, pointer, pc_pairs, stdin, stdout, Fixed>>

\* pc = match_right_pc(..).unwrap() - 1, then pc = pc + 1: with overflow checks
\* 0 - 1 panics; without, it wraps to usize::MAX and the + 1 wraps back to 0
Close ==
    /\ Dispatching("]")
    /\ LET m == match_right_pc(pc_pairs, pc)
       IN  IF m = None \/ (m = 0 /\ overflow_checks)
           THEN Panic
           ELSE Step("Ok", m - 1)
    /\ UNCHANGED <<memory, pointer, pc_pairs, stdin, stdout, Fixed>>

Other ==
    /\ phase = "loop"
    /\ pc < Len(symbols)
    /\ symbols[pc + 1] \notin Instructions
    /\ Step("Ok", pc)
    /\ UNCHANGED <<memory, pointer, pc_pairs, stdin, stdout, Fixed>>

\* while pc < symbols.len() fails: return result
Return ==
    /\ phase = "loop"
    /\ pc >= Len(symbols)
    /\ phase' = "returned"
    /\ UNCHANGED <<memory, pointer, pc, pc_pairs, result, stdin, stdout, last, Fixed>>

----------------------------------------------------------------------------
(* The interpreter on every short program *)

Programs == UNION {[1..n -> Alphabet] : n \in 0..MaxLen}

\* BfState::new(), and states left by earlier runs ("+" and "+++++++>-")
StartStates ==
    { [memory |-> GrowableVect_new, pointer |-> 0],
      [memory |-> [arr |-> <<1>>, default_value |-> default_value], pointer |-> 0],
      [memory |-> [arr |-> <<7, 255>>, default_value |-> default_value], pointer |-> 1] }

Inputs == { <<>>, <<200, 10>> }

NoOutput == [buf |-> <<>>, flushed |-> <<>>]

InitCall(text, st, input, checks, seq) ==
    /\ program = text
    /\ memory = st.memory
    /\ pointer = st.pointer
    /\ pc = 0
    /\ pc_pairs = <<>>
    /\ result = "Ok"
    /\ phase = "call"
    /\ stdin = input
    /\ stdout = NoOutput
    /\ overflow_checks = checks
    /\ start = [memory |-> st.memory, pointer |-> st.pointer,
                stdin |-> input, stdout |-> NoOutput]
    /\ last = -1
    /\ prev = NoRun
    /\ parts = seq
    /\ op = NoOp
    /\ written = {}

InitWith(text, st, input, checks) == InitCall(text, st, input, checks, NoParts)

Init ==
    \E text \in Programs, st \in StartStates, input \in Inputs, checks \in BOOLEAN :
        InitWith(text, st, input, checks)

Next ==
    \/ Run
    \/ Inc
    \/ Dec
    \/ Right
    \/ Left
    \/ Comma
    \/ Dot
    \/ Open
    \/ Close
    \/ Other
    \/ Return

Spec == Init /\ [][Next]_vars

----------------------------------------------------------------------------
(* The bracket matcher and the jumps on longer texts of brackets and no-ops *)

MaxBrackets == 6   \* longest text of brackets and no-ops, in chars

BracketAlphabet == {"[", "]", "x", "U+00E9"}

BracketPrograms == UNION {[1..n -> BracketAlphabet] : n \in 0..MaxBrackets}

\* BfState::new(), and the state left by "+"
MatchStartStates ==
    { [memory |-> GrowableVect_new, pointer |-> 0],
      [memory |-> [arr |-> <<1>>, default_value |-> default_value], pointer |-> 0] }

MatchInit ==
    \E text \in BracketPrograms, st \in MatchStartStates, checks \in BOOLEAN :
        InitWith(text, st, <<>>, checks)

MatchNext ==
    \/ Run
    \/ Open
    \/ Close
    \/ Other
    \/ Return

MatchSpec == MatchInit /\ [][MatchNext]_vars

----------------------------------------------------------------------------
(* The counting loops of the tests run_nonempty_loop and run_loop_with_overflow *)

MaxPlus == 255     \* most '+' in front of the transfer loop

Plus(n) == [k \in 1..n |-> "+"]

TransferLoop == <<"[", ">", "+", "<", "-", "]">>

OverflowLoop == <<"-", "[", "-", ">", "+", "<", "]">>

LoopPrograms == {Plus(n) \o TransferLoop : n \in 0..MaxPlus} \cup {OverflowLoop}

LoopInit ==
    \E text \in LoopPrograms, checks \in BOOLEAN :
        InitWith(text, [memory |-> GrowableVect_new, pointer |-> 0], <<>>, checks)

LoopNext ==
    \/ Run
    \/ Inc
    \/ Dec
    \/ Right
    \/ Left
    \/ Open
    \/ Close
    \/ Return

LoopSpec == LoopInit /\ [][LoopNext]_vars

----------------------------------------------------------------------------
(* The tape accessed directly, as the tests of GrowableVect do *)

MaxIndex == 3      \* largest index written

TapeValues == {0, 1, 255}

TapeFrame == <<program, pointer, pc, pc_pairs, result, phase, stdin, stdout,
               overflow_checks, start, last, prev, parts>>

\* vect[i] = v
TapeWrite ==
    \E i \in 0..MaxIndex, v \in TapeValues :
        /\ memory' = assign(memory, i, v)
        /\ op' = [kind |-> "write", index |-> i, value |-> v, len |-> Len(memory.arr)]
        /\ written' = written \cup {i}
        /\ UNCHANGED TapeFrame

\* vect[i]
TapeRead ==
    \E i \in 0..(MaxIndex + 1) :
        /\ op' = [kind |-> "read", index |-> i, value |-> index(memory, i),
                  len |-> Len(memory.arr)]
        /\ UNCHANGED <<memory, written>>
        /\ UNCHANGED TapeFrame

TapeInit == InitWith(<<>>, [memory |-> GrowableVect_new, pointer |-> 0], <<>>, FALSE)

TapeNext ==
    \/ TapeWrite
    \/ TapeRead

TapeSpec == TapeInit /\ [][TapeNext]_vars

----------------------------------------------------------------------------
(* A run of a text, then a run of the same text without its no-op chars *)

IsInstruction(sym) == sym \in Instructions

strip(text) == SelectSeq(text, IsInstruction)

\* what a caller sees of a finished run: the result, the tape as read, the
\* pointer and the output
Outcome ==
    [result |-> IF phase = "returned" THEN result ELSE "panic",
     tape |-> [j \in 0..(MaxPointer + 1) |-> index(memory, j)],
     pointer |-> pointer,
     stdout |-> stdout]

RunStripped ==
    /\ phase \in {"returned", "panicked"}
    /\ prev = NoRun
    /\ prev' = Outcome
    /\ program' = strip(program)
    /\ memory' = start.memory
    /\ pointer' = start.pointer
    /\ stdin' = start.stdin
    /\ stdout' = start.stdout
    /\ pc' = 0
    /\ pc_pairs' = <<>>
    /\ result' = "Ok"
    /\ phase' = "call"
    /\ last' = -1
    /\ UNCHANGED <<overflow_checks, start, parts, op, written>>

StripNext ==
    \/ Next
    \/ RunStripped

StripSpec == Init /\ [][StripNext]_vars

----------------------------------------------------------------------------
(* Vocabulary of the properties *)

Count(text, sym, k) == Cardinality({i \in 1..k : text[i] = sym})

\* no prefix holds more ']' than '[', and the whole text as many of each
Balanced(text) ==
    /\ \A k \in 0..Len(text) : Count(text, "]", k) <= Count(text, "[", k)
    /\ Count(text, "[", Len(text)) = Count(text, "]", Len(text))

\* the char position of the ']' that closes the '[' at char position p:
\* the first position after p where the text from p on holds as many ']' as '['
MatchingClose(text, p) ==
    LET closes == {q \in (p + 1)..(Len(text) - 1) :
                      Count(text, "[", q + 1) - Count(text, "[", p)
                          = Count(text, "]", q + 1) - Count(text, "]", p)}
    IN  IF closes = {} THEN None
        ELSE CHOOSE q \in closes : \A r \in closes : q <= r

\* the char position of the '[' that the ']' at char position q closes: the
\* last position before q from which the text up to q holds as many '[' as ']'
MatchingOpen(text, q) ==
    LET opens == {p \in 0..(q - 1) :
                     Count(text, "[", q + 1) - Count(text, "[", p)
                         = Count(text, "]", q + 1) - Count(text, "]", p)}
    IN  IF opens = {} THEN None
        ELSE CHOOSE p \in opens : \A r \in opens : r <= p

\* the char positions of the sym brackets of the text that start at byte
\* offset off (one at most: byte offsets grow with the char position)
BracketsAt(text, sym, off) ==
    {p \in 0..(Len(text) - 1) : text[p + 1] = sym /\ byte_offset(text, p) = off}

NoBrackets(text) == \A i \in 1..Len(text) : text[i] \notin {"[", "]"}

\* the byte offsets at which the text holds sym
OffsetsOf(text, sym) ==
    {byte_offset(text, p) : p \in {p \in 0..(Len(text) - 1) : text[p + 1] = sym}}

Done == phase \in {"returned", "panicked"}

Cells == 0..(MaxPointer + 1)

\* the cells other than cell i read the same before and after the step
OthersKept(i) == \A j \in Cells : j # i => index(memory', j) = index(memory, j)

----------------------------------------------------------------------------
(* The loop of the header comment, run after the loop of run on the same
   program and starting state *)

\* "] if curr cell != 0, jmp to [": back to the '[' this ']' closes when the
\* cell is not 0, on to the next instruction when it is
DocClose ==
    /\ Dispatching("]")
    /\ IF curr(memory, pointer) # 0
       THEN Step("Ok", MatchingOpen(program, pc) - 1)
       ELSE Step("Ok", pc)
    /\ UNCHANGED <<memory, pointer, pc_pairs, stdin, stdout, Fixed>>

DocNext ==
    \/ Run
    \/ Inc
    \/ Dec
    \/ Right
    \/ Left
    \/ Comma
    \/ Dot
    \/ Open
    \/ DocClose
    \/ Other
    \/ Return

\* the same program again from the same starting state, under DocNext
RunDocumented ==
    /\ phase \in {"returned", "panicked"}
    /\ prev = NoRun
    /\ prev' = Outcome
    /\ memory' = start.memory
    /\ pointer' = start.pointer
    /\ stdin' = start.stdin
    /\ stdout' = start.stdout
    /\ pc' = 0
    /\ pc_pairs' = <<>>
    /\ result' = "Ok"
    /\ phase' = "call"
    /\ last' = -1
    /\ UNCHANGED <<program, overflow_checks, start, parts, op, written>>

AsImplemented == prev = NoRun /\ Next

AsDocumented == prev # NoRun /\ DocNext

RefNext ==
    \/ AsImplemented
    \/ AsDocumented
    \/ RunDocumented

RefSpec == Init /\ [][RefNext]_vars

----------------------------------------------------------------------------
(* Two texts run one after the other on the same state, as the test
   run_loop_with_overflow does, then their concatenation run from the same
   starting state *)

MaxPart == 3       \* longest text of a part, in chars

PartAlphabet == {"+", "-", "[", "]", "U+00E9"}

PartPrograms ==
    {text \in UNION {[1..n -> PartAlphabet] : n \in 0..MaxPart} : Balanced(text)}

ComposeInit ==
    \E p1, p2 \in PartPrograms, st \in MatchStartStates, checks \in BOOLEAN :
        InitCall(p1, st, <<>>, checks, [texts |-> <<p1, p2>>, at |-> 1])

\* run(p2, &mut state) after run(p1, &mut state) returned Ok: a new call, with
\* its own pc and pairing table, on the tape and pointer left by the first
NextPart ==
    /\ phase = "returned"
    /\ result = "Ok"
    /\ parts.at = 1
    /\ parts' = [parts EXCEPT !.at = 2]
    /\ program' = parts.texts[2]
    /\ pc' = 0
    /\ pc_pairs' = <<>>
    /\ phase' = "call"
    /\ last' = -1
    /\ UNCHANGED <<memory, pointer, result, stdin, stdout, overflow_checks,
                   start, prev, op, written>>

\* the two calls are over (the second, or the first without Ok): the
\* concatenation of the two texts is run from the same starting state
RunWhole ==
    /\ Done
    /\ prev = NoRun
    /\ parts.at = 2 \/ (parts.at = 1 /\ ~(phase = "returned" /\ result = "Ok"))
    /\ prev' = Outcome
    /\ parts' = [parts EXCEPT !.at = 3]
    /\ program' = parts.texts[1] \o parts.texts[2]
    /\ memory' = start.memory
    /\ pointer' = start.pointer
    /\ stdin' = start.stdin
    /\ stdout' = start.stdout
    /\ pc' = 0
    /\ pc_pairs' = <<>>
    /\ result' = "Ok"
    /\ phase' = "call"
    /\ last' = -1
    /\ UNCHANGED <<overflow_checks, start, op, written>>

ComposeNext ==
    \/ Run
    \/ Inc
    \/ Dec
    \/ Open
    \/ Close
    \/ Other
    \/ Return
    \/ NextPart
    \/ RunWhole

ComposeSpec == ComposeInit /\ [][ComposeNext]_vars

----------------------------------------------------------------------------
(* Properties of the interpreter, under Spec *)

\* C1: a program whose brackets are not balanced makes run return
\* MismatchedBraces with no instruction dispatched: the tape (contents and
\* materialized length), the pointer, the input and the output are those of
\* the call.
C1_RejectedBeforeAnyEffect ==
    (~Balanced(program) /\ phase # "call") =>
        /\ phase = "returned"
        /\ result = "MismatchedBraces"
        /\ last = -1
        /\ memory = start.memory
        /\ pointer = start.pointer
        /\ stdin = start.stdin
        /\ stdout = start.stdout

\* C1's case: a rejected program whose first char is an instruction, on a
\* reused state with input pending
C1_Witness ==
    /\ phase = "returned"
    /\ result = "MismatchedBraces"
    /\ Len(program) = 3
    /\ program[1] = "+"
    /\ program[3] = "]"
    /\ memory.arr = <<7, 255>>
    /\ stdin # <<>>

\* C3: a '<' dispatched at pointer 0 ends run with Segfault, the pointer still
\* 0 and the tape, input and output as they were just before it; once run has
\* returned nothing more is dispatched.
C3_SegfaultStops ==
    [][ /\ (Dispatching("<") /\ pointer = 0) =>
               /\ phase' = "returned"
               /\ result' = "Segfault"
               /\ pointer' = 0
               /\ memory' = memory
               /\ stdin' = stdin
               /\ stdout' = stdout
               /\ last' = pc
        /\ phase = "returned" => UNCHANGED vars ]_vars

\* C3's case: Segfault returned after earlier instructions changed the tape,
\* with an instruction left behind the failing '<'
C3_Witness ==
    /\ phase = "returned"
    /\ result = "Segfault"
    /\ pointer = 0
    /\ memory # start.memory
    /\ last + 1 < Len(program)
    /\ program[last + 2] \in Instructions

\* C4: a '[' dispatched on a zero cell leaves tape and pointer alone and
\* continues with the char after its matching ']'.
C4_ZeroCellSkipsLoop ==
    [][ (Dispatching("[") /\ curr(memory, pointer) = 0) =>
            /\ phase' = "loop"
            /\ pc' = MatchingClose(program, pc) + 1
            /\ memory' = memory
            /\ pointer' = pointer ]_vars

\* C8: '+' leaves (c + 1) mod 256 and '-' leaves (c - 1) mod 256 in the
\* current cell; neither fails, moves the pointer or changes another cell.
C8_IncDecWrap ==
    [][ /\ Dispatching("+") =>
               /\ index(memory', pointer) =
                      (IF curr(memory, pointer) = 255 THEN 0
                       ELSE curr(memory, pointer) + 1)
               /\ OthersKept(pointer)
               /\ pointer' = pointer
               /\ phase' = "loop" /\ result' = "Ok"
        /\ Dispatching("-") =>
               /\ index(memory', pointer) =
                      (IF curr(memory, pointer) = 0 THEN 255
                       ELSE curr(memory, pointer) - 1)
               /\ OthersKept(pointer)
               /\ pointer' = pointer
               /\ phase' = "loop" /\ result' = "Ok" ]_vars

\* C8's case: a '+' has just wrapped cell 1 from 255 to 0 beside a non-zero cell 0
C8_Witness ==
    /\ phase = "loop"
    /\ last >= 0
    /\ program[last + 1] = "+"
    /\ start.memory.arr = <<7, 255>>
    /\ memory.arr = <<7, 0>>
    /\ pointer = 1

\* C10: a '.' makes exactly one more byte visible on the output, the current
\* cell, and leaves nothing unflushed.
C10_DotEmitsTheCell ==
    [][ Dispatching(".") =>
            /\ stdout'.flushed = Append(stdout.flushed, curr(memory, pointer))
            /\ stdout'.buf = <<>> ]_vars

----------------------------------------------------------------------------
(* Properties of the bracket matcher, under MatchSpec *)

\* C2: validation fails with MismatchedBraces exactly when the brackets are
\* not balanced (some prefix with more ']' than '[', or more '[' than ']'
\* overall); every other text passes.
C2_RejectsExactlyUnbalanced ==
    phase # "call" => ((result = "MismatchedBraces") <=> ~Balanced(program))

\* C2's case: "[[[]]]" has passed validation
C2_Witness ==
    /\ phase = "loop"
    /\ result = "Ok"
    /\ program = <<"[", "[", "[", "]", "]", "]">>
    /\ Len(pc_pairs) = 3

----------------------------------------------------------------------------
(* Properties of the counting loops, under LoopSpec *)

\* the offset of the loop's '[' and, from it, of the '-' in the loop body
LoopStart == Len(program) - Len(TransferLoop)

DecOffset == IF program[LoopStart + 2] = "-" THEN 1 ELSE 4

\* the guards of LoopNext's actions: run can take a step
CanStep ==
    \/ phase = "call"
    \/ /\ phase = "loop"
       /\ \/ pc >= Len(program)
          \/ program[pc + 1] \in {"+", "-", "<", "[", "]"}
          \/ program[pc + 1] = ">" /\ pointer < MaxPointer

\* a measure of the work left: the call, the '+' or '-' in front of the loop,
\* six steps for each count still in cell 0, the return
Rank ==
    CASE phase \in {"returned", "panicked"} -> -2
      [] phase = "call" -> 6 * 256 + 7 + Len(program)
      [] pc >= Len(program) -> -1
      [] pc < LoopStart -> 6 * 256 + 6 + (LoopStart - pc)
      [] OTHER ->
            LET d == pc - LoopStart
            IN  6 * (index(memory, 0) + (IF d > DecOffset THEN 1 ELSE 0)) - d

\* C5: n '+' followed by "[>+<-]" on a fresh state returns Ok with cell 0 = 0,
\* cell 1 = n (mod 256) and the pointer at 0, and "-[->+<]" returns Ok with
\* cell 0 = 0 and cell 1 = 255.  Both do return: run never panics, is never
\* stuck before it returns, and every step lowers Rank, which is at least -2.
C5_LoopTransfersTheCount ==
    /\ [](/\ phase # "panicked"
          /\ phase \in {"call", "loop"} => CanStep
          /\ phase = "returned" =>
                /\ result = "Ok"
                /\ index(memory, 0) = 0
                /\ index(memory, 1) =
                       (IF program = OverflowLoop THEN 255
                        ELSE (Len(program) - Len(TransferLoop)) % 256)
                /\ program # OverflowLoop => pointer = 0)
    /\ [][Rank' < Rank]_vars

\* C5's case: the loop has moved a count of 200 and run has returned
C5_Witness ==
    /\ phase = "returned"
    /\ Len(program) = 200 + Len(TransferLoop)
    /\ memory.arr = <<0, 200>>
    /\ last = Len(program) - Len(TransferLoop)

----------------------------------------------------------------------------
(* Properties of the tape, under TapeSpec *)

\* C6: after any writes, a write of v at i makes a read of i give v; a read
\* of an index never written gives 0, inside the materialized range or beyond.
C6_TapeRoundTrip ==
    /\ op.kind = "write" => index(memory, op.index) = op.value
    /\ (op.kind = "read" /\ op.index \notin written) => op.value = 0
    /\ \A i \in 0..(MaxIndex + 1) : i \notin written => index(memory, i) = 0

\* C6's case: a write inside the materialized range after an earlier write
\* beyond it, with unwritten cells in between
C6_Witness ==
    /\ op.kind = "write"
    /\ op.index = 1
    /\ op.value = 255
    /\ written = {1, 3}
    /\ op.len = 4

\* C7: a write at i leaves the value read at every other index as it was,
\* also when it grows the backing storage.
C7_WriteTouchesOneCell ==
    [][ \A j \in 0..(MaxIndex + 1) :
            (op'.kind = "write" => j # op'.index) =>
                index(memory', j) = index(memory, j) ]_vars

\* C7's case: a write that grew the storage from length 1 to 3 beside a
\* written cell 0
C7_Witness ==
    /\ op.kind = "write"
    /\ op.index = 2
    /\ op.len = 1
    /\ Len(memory.arr) = 3
    /\ index(memory, 0) = 255

----------------------------------------------------------------------------
(* Properties of the two runs, under StripSpec *)

\* C9: the run of a text and the run of the text without its no-op chars end
\* with the same result, tape, pointer and output.
C9_NoOpCharsChangeNothing ==
    (prev # NoRun /\ Done) => Outcome = prev


----------------------------------------------------------------------------
(* Properties of the dispatch loop, under Spec *)

\* C11: a ',' at the end of the input aborts run there, the tape (the current
\* cell included), the pointer and the output as they were just before it,
\* and nothing is dispatched after the abort; a ',' with input pending takes
\* exactly the next byte of the stream and stores it in the current cell,
\* leaving the pointer and the other cells alone.
C11_CommaReadsOrAborts ==
    [][ /\ Dispatching(",") =>
               IF stdin = <<>>
               THEN /\ phase' = "panicked"
                    /\ last' = pc
                    /\ memory' = memory
                    /\ pointer' = pointer
                    /\ stdout' = stdout
                    /\ stdin' = stdin
               ELSE /\ phase' = "loop"
                    /\ stdin' = Tail(stdin)
                    /\ index(memory', pointer) = Head(stdin)
                    /\ OthersKept(pointer)
                    /\ pointer' = pointer
        /\ phase = "panicked" => UNCHANGED vars ]_vars

\* C11's case: two bytes were read in stream order, the third ',' found the
\* input exhausted and aborted with the second byte still in the cell
C11_Witness ==
    /\ phase = "panicked"
    /\ program = <<",", ",", ",">>
    /\ last = 2
    /\ start.stdin = <<200, 10>>
    /\ stdin = <<>>
    /\ curr(memory, pointer) = 10


\* C12 as stated: whenever a ']' is dispatched and the loop goes on, the next
\* program counter is the position after the paired '['.
C12_CloseJumpsPastOpen ==
    [][ (Dispatching("]") /\ phase' = "loop") =>
            pc' = MatchingOpen(program, pc) + 1 ]_vars

\* C12, amended: a dispatched ']' at pc changes neither tape nor pointer and
\* is resolved through the bracket whose byte offset is pc. With no ']' at
\* that byte offset run aborts; otherwise let o be the byte offset of the '['
\* that bracket closes: with overflow checks and o = 0 run aborts, in every
\* other case the next program counter is o itself, so that for one-byte text
\* the paired '[' is the next instruction dispatched.
C12_CloseJumpsToOpen ==
    [][ Dispatching("]") =>
            /\ memory' = memory
            /\ pointer' = pointer
            /\ LET qs == BracketsAt(program, "]", pc)
               IN  IF qs = {}
                   THEN phase' = "panicked"
                   ELSE LET q == CHOOSE q \in qs : TRUE
                            o == byte_offset(program, MatchingOpen(program, q))
                        IN  IF o = 0 /\ overflow_checks
                            THEN phase' = "panicked"
                            ELSE phase' = "loop" /\ pc' = o ]_vars

\* C12's case: the ']' of "x[]" was dispatched on a non-zero cell and the
\* program counter is back on its '['
C12_Witness ==
    /\ phase = "loop"
    /\ last >= 0
    /\ program[last + 1] = "]"
    /\ pc = MatchingOpen(program, last)
    /\ pc > 0
    /\ program[pc + 1] = "["
    /\ curr(memory, pointer) # 0

\* C13 as stated: a dispatched '[' moves the program counter onto the paired
\* ']' when the current cell is 0, and to pc + 1 when it is not.
C13_OpenJumpsToClose ==
    [][ (Dispatching("[") /\ phase' = "loop") =>
            pc' = IF curr(memory, pointer) = 0
                  THEN MatchingClose(program, pc)
                  ELSE pc + 1 ]_vars

\* C13, amended: a dispatched '[' at pc changes neither tape nor pointer.
\* On a non-zero cell the next program counter is pc + 1. On a zero cell it
\* is resolved through the bracket whose byte offset is pc: with no '[' at
\* that byte offset run aborts, otherwise the next program counter is one
\* past the byte offset of the ']' closing that bracket, so that for one-byte
\* text the instruction after the paired ']' is dispatched next.
C13_OpenJumpsPastClose ==
    [][ Dispatching("[") =>
            /\ memory' = memory
            /\ pointer' = pointer
            /\ IF curr(memory, pointer) # 0
               THEN phase' = "loop" /\ pc' = pc + 1
               ELSE LET ps == BracketsAt(program, "[", pc)
                    IN  IF ps = {}
                        THEN phase' = "panicked"
                        ELSE LET p == CHOOSE p \in ps : TRUE
                             IN  /\ phase' = "loop"
                                 /\ pc' = byte_offset(program,
                                              MatchingClose(program, p)) + 1 ]_vars

\* C13's case: the '[' of "[]+" was dispatched on a zero cell and the program
\* counter is on the '+' after the paired ']'
C13_Witness ==
    /\ phase = "loop"
    /\ last >= 0
    /\ program[last + 1] = "["
    /\ curr(memory, pointer) = 0
    /\ pc = MatchingClose(program, last) + 1
    /\ pc < Len(program)


\* C15: while a validated program runs and after it returned, the program
\* counter is within 0..len(program); run has returned success only with the
\* program counter equal to len(program), and leaves the loop as soon as the
\* program counter is len(program).
C15_PcWithinProgram ==
    (Balanced(program) /\ phase \in {"loop", "returned", "panicked"}) =>
        /\ pc \in 0..Len(program)
        /\ (phase = "returned" /\ result = "Ok") => pc = Len(program)

\* the steps a run without brackets has left at most: the call, one step for
\* each position from pc on, the return
Remaining ==
    CASE phase = "call" -> Len(program) + 2
      [] phase = "loop" -> Len(program) - pc + 1
      [] OTHER -> 0

\* C16: a program without brackets ends after at most len(program)
\* dispatches.  Until it ends run can always take a step, the program counter
\* is the number of dispatches made and at most len(program), every dispatch
\* is at the position after the one before, and every step lowers Remaining.
\* It ends with Ok at pc = len(program), or with Segfault at a '<' dispatched
\* at pointer 0, or aborted at a ',' that found the input exhausted.  The
\* empty program returns Ok with tape, pointer, input and output of the call.
C16_StraightLineTerminates ==
    /\ [](NoBrackets(program) =>
            /\ ~Done => ENABLED Next
            /\ phase = "loop" => pc = last + 1 /\ pc \in 0..Len(program)
            /\ phase = "returned" =>
                  \/ result = "Ok" /\ pc = Len(program) /\ last = pc - 1
                  \/ /\ result = "Segfault"
                     /\ program[last + 1] = "<"
                     /\ pointer = 0
            /\ phase = "panicked" => program[last + 1] = "," /\ stdin = <<>>
            /\ (program = <<>> /\ Done) =>
                  /\ phase = "returned" /\ result = "Ok"
                  /\ memory = start.memory
                  /\ pointer = start.pointer
                  /\ stdin = start.stdin
                  /\ stdout = start.stdout)
    /\ [][NoBrackets(program) =>
            /\ Remaining' < Remaining
            /\ Dispatching(program[pc + 1]) /\ phase' = "loop" =>
                  pc' = pc + 1 /\ last' = pc]_vars

\* C16's case: a three-char program without brackets has dispatched its
\* positions 0, 1, 2, moved the pointer twice, written the tape
\* and returned Ok
C16_Witness ==
    /\ phase = "returned"
    /\ result = "Ok"
    /\ NoBrackets(program)
    /\ Len(program) = MaxLen
    /\ last = MaxLen - 1
    /\ pointer = start.pointer + 2
    /\ memory # start.memory
\* C19: at every dispatched ']' of a validated program the offset found by
\* match_right_pc is at least 1, so that the subtraction of 1 stays within
\* the unsigned counter, whatever the starting state.
C19_CloseNeverUnderflows ==
    (Balanced(program) /\ Dispatching("]")
        /\ match_right_pc(pc_pairs, pc) # None) =>
            match_right_pc(pc_pairs, pc) - 1 >= 0

----------------------------------------------------------------------------
(* Properties of the bracket lookups, under MatchSpec *)

\* C14: in a validated program every lookup made by the dispatch loop finds a
\* pair, and the offset found is the char position of the bracket's nesting
\* partner: match_left_pc at a '[' dispatched on a zero cell gives the
\* position of its ']', match_right_pc at a dispatched ']' the position of
\* its '['.
C14_LookupsFindThePartner ==
    /\ (Dispatching("[") /\ curr(memory, pointer) = 0) =>
           /\ match_left_pc(pc_pairs, pc) # None
           /\ match_left_pc(pc_pairs, pc) = MatchingClose(program, pc)
    /\ Dispatching("]") =>
           /\ match_right_pc(pc_pairs, pc) # None
           /\ match_right_pc(pc_pairs, pc) = MatchingOpen(program, pc)


\* C17: the table of a validated program is a well-nested bijection.  Its
\* open offsets are the byte offsets of the '[' of the text and its close
\* offsets those of the ']', none twice; every pair has open < close and is
\* made of a '[' and the ']' that closes it; two pairs are disjoint or one
\* lies strictly inside the other.  The table of "[]" is the one pair (0, 1).
C17_TableIsWellNested ==
    (phase # "call" /\ result = "Ok") =>
        LET P == 1..Len(pc_pairs)
        IN  /\ {pc_pairs[i][1] : i \in P} = OffsetsOf(program, "[")
            /\ {pc_pairs[i][2] : i \in P} = OffsetsOf(program, "]")
            /\ \A i, j \in P :
                  i # j => /\ pc_pairs[i][1] # pc_pairs[j][1]
                           /\ pc_pairs[i][2] # pc_pairs[j][2]
            /\ \A i \in P : pc_pairs[i][1] < pc_pairs[i][2]
            /\ \A i, j \in P :
                  i # j => \/ pc_pairs[i][2] < pc_pairs[j][1]
                           \/ pc_pairs[j][2] < pc_pairs[i][1]
                           \/ /\ pc_pairs[i][1] < pc_pairs[j][1]
                              /\ pc_pairs[j][2] < pc_pairs[i][2]
                           \/ /\ pc_pairs[j][1] < pc_pairs[i][1]
                              /\ pc_pairs[i][2] < pc_pairs[j][2]
            /\ \A p \in 0..(Len(program) - 1) :
                  program[p + 1] = "[" =>
                      \E i \in P :
                          pc_pairs[i] =
                              <<byte_offset(program, p),
                                byte_offset(program, MatchingClose(program, p))>>
            /\ program = <<"[", "]">> => pc_pairs = <<<<0, 1>>>>

\* C17's case: the table built for "[[]][]", a nested loop followed by
\* another loop, holds three pairs
C17_Witness ==
    /\ phase # "call"
    /\ result = "Ok"
    /\ program = <<"[", "[", "]", "]", "[", "]">>
    /\ Len(pc_pairs) = 3


----------------------------------------------------------------------------
(* Properties of whole runs, under RefSpec *)

\* C18: a validated program run from the same starting state under the loop
\* of run and under the loop of the header comment, whose ']' jumps back only
\* on a non-zero cell, ends with the same result, tape, pointer and output.
C18_SameAsDocumentedLoop ==
    (Balanced(program) /\ prev # NoRun /\ Done) => Outcome = prev


----------------------------------------------------------------------------
(* Properties of consecutive runs, under ComposeSpec *)

\* C20: two balanced texts run one after the other on the same state (the
\* second only if the first returned Ok) end with the same result, tape,
\* pointer and output as their concatenation run from the same starting state.
C20_RunsCompose ==
    (parts.at = 3 /\ Done) => Outcome = prev

====
